---------------------------- MODULE Spec2Model ----------------------------
(***************************************************************************)
(* Consensus ADMM of cvxconsensus/consensus.py: the coordinator            *)
(* (consensus), the workers (run_worker), the pipes between them, and the  *)
(* pure functions x_average, res_stop, step_ls, step_cor, step_safe and    *)
(* step_spec.                                                              *)
(*                                                                         *)
(* Numbers.  A float is modelled as an exact rational <<n, d>> in lowest   *)
(* terms with d >= 0; d = 0 stands for the IEEE values a division by zero  *)
(* produces (<<1,0>> = +inf, <<-1,0>> = -inf, <<0,0>> = nan).  Rounding of *)
(* +, -, *, / is not modelled; np.sqrt is rounded down to the model's      *)
(* precision (see Sqrt).  A numpy array is a sequence of numbers.          *)
(***************************************************************************)
EXTENDS Integers, Sequences, FiniteSets, TLC

(***************************************************************************)
(* Bounds of the model.                                                    *)
(***************************************************************************)
\* number of worker processes (len(p_list)) of the modelled run
N == 2
\* largest max_iter a modelled run is started with (0 .. MaxIter)
MaxIter == 3
\* largest round index k handed to step_spec when it is checked alone
MaxK == 2
\* np.sqrt is rounded down to a multiple of 1/(d * SqrtScale)
SqrtScale == 4
\* longest list of reports x_average is given when checked alone
MaxReports == 3
\* longest list of residual reports res_stop is given when checked alone
MaxSsqReports == 2

(***************************************************************************)
(* Float arithmetic (numpy / python operators used throughout).            *)
(***************************************************************************)
Abs(n) == IF n < 0 THEN -n ELSE n

RECURSIVE Gcd(_, _)
Gcd(a, b) == IF b = 0 THEN a ELSE Gcd(b, a % b)

\* the number n/d in lowest terms, sign carried by the numerator
Rat(n, d) ==
    LET g == Gcd(Abs(n), Abs(d))
        s == IF d < 0 THEN -1 ELSE 1
    IN  IF g = 0 THEN <<0, 0>> ELSE <<(s * n) \div g, (s * d) \div g>>

Num(n) == <<n, 1>>
Zero == <<0, 1>>
One == <<1, 1>>
IsNaN(a) == a = <<0, 0>>

Add(a, b) == Rat(a[1] * b[2] + b[1] * a[2], a[2] * b[2])
Neg(a) == <<-a[1], a[2]>>
Sub(a, b) == Add(a, Neg(b))
Mul(a, b) == Rat(a[1] * b[1], a[2] * b[2])
Div(a, b) == Rat(a[1] * b[2], a[2] * b[1])

\* a < b, a <= b, a > b on floats (every comparison with nan is false)
Lt(a, b) ==
    /\ ~IsNaN(a)
    /\ ~IsNaN(b)
    /\ IF a[2] = 0 /\ b[2] = 0 THEN a[1] < b[1] ELSE a[1] * b[2] < b[1] * a[2]
Leq(a, b) ==
    /\ ~IsNaN(a)
    /\ ~IsNaN(b)
    /\ IF a[2] = 0 /\ b[2] = 0 THEN a[1] <= b[1] ELSE a[1] * b[2] <= b[1] * a[2]
Gt(a, b) == Lt(b, a)

\* python's builtin max(a, b) and min(a, b): the first argument unless the
\* second is strictly greater (smaller)
PyMax(a, b) == IF Gt(b, a) THEN b ELSE a
PyMin(a, b) == IF Lt(b, a) THEN b ELSE a

\* a <= b + np.finfo(float).eps, with eps = 2^-52 exactly: for a = n1/d1 and
\* b = n2/d2 this is (n1*d2 - n2*d1) * 2^52 <= d1*d2, that is
\* n1*d2 - n2*d1 <= floor(d1*d2 / 2^52), the floor taken as two divisions by 2^26
TwoPow26 == 67108864
LeqPlusEps(a, b) ==
    /\ ~IsNaN(a)
    /\ ~IsNaN(b)
    /\ IF a[2] = 0 \/ b[2] = 0
       THEN Leq(a, b)
       ELSE a[1] * b[2] - b[1] * a[2] <= ((a[2] * b[2]) \div TwoPow26) \div TwoPow26

\* floor of the square root of a natural number, by bisection on lo..hi
RECURSIVE ISqrtIn(_, _, _)
ISqrtIn(n, lo, hi) ==
    IF lo >= hi THEN lo
    ELSE LET mid == (lo + hi + 1) \div 2
         IN  IF mid * mid <= n THEN ISqrtIn(n, mid, hi) ELSE ISqrtIn(n, lo, mid - 1)
ISqrt(n) == ISqrtIn(n, 0, IF n < 46340 THEN n ELSE 46340)

\* np.sqrt: exact when the root is a multiple of 1/(d * SqrtScale), otherwise
\* rounded down to one; nan for a negative argument, inf for inf
Sqrt(a) ==
    IF IsNaN(a) \/ a[1] < 0 THEN <<0, 0>>
    ELSE IF a[2] = 0 THEN a
    ELSE Rat(ISqrt(a[1] * a[2] * SqrtScale * SqrtScale), a[2] * SqrtScale)

(***************************************************************************)
(* numpy arrays: sequences of floats of equal length.                      *)
(***************************************************************************)
RECURSIVE SumSeq(_)
SumSeq(s) == IF s = <<>> THEN Zero ELSE Add(Head(s), SumSeq(Tail(s)))

VAdd(p, d) == [k \in DOMAIN p |-> Add(p[k], d[k])]
VSub(p, d) == [k \in DOMAIN p |-> Sub(p[k], d[k])]
VNeg(p) == [k \in DOMAIN p |-> Neg(p[k])]
VScale(c, p) == [k \in DOMAIN p |-> Mul(c, p[k])]
VDivBy(p, c) == [k \in DOMAIN p |-> Div(p[k], c)]
\* np.sum(p*d) and np.sum(p**2)
Dot(p, d) == SumSeq([k \in DOMAIN p |-> Mul(p[k], d[k])])
SumSq(p) == Dot(p, p)
\* np.linalg.norm(p)
Norm(p) == Sqrt(SumSq(p))

\* np.sum(np.array(xlist), axis = 0) of a non-empty list of arrays
RECURSIVE VSumList(_)
VSumList(xlist) ==
    IF Len(xlist) = 1 THEN Head(xlist) ELSE VAdd(Head(xlist), VSumList(Tail(xlist)))

\* the value None of an unset cvxpy variable
NoneValue == <<>>

(***************************************************************************)
(* Spectral step size (step_ls, step_cor, step_safe, step_spec).           *)
(***************************************************************************)
step_ls(p, d) ==
    LET sd == Div(SumSq(d), Dot(p, d))
        mg == Div(Dot(p, d), SumSq(p))
    IN  IF Gt(Mul(Num(2), mg), sd) THEN mg ELSE Sub(sd, Div(mg, Num(2)))

step_cor(p, d) == Div(Dot(p, d), Mul(Norm(p), Norm(d)))

\* a plausible slip: a correlation equal to the threshold counts as exceeding it
step_safe_geq(rho, a, b, a_cor, b_cor, eps) ==
    IF Leq(eps, a_cor) /\ Leq(eps, b_cor) THEN Sqrt(Mul(a, b))
    ELSE IF Leq(eps, a_cor) /\ Lt(b_cor, eps) THEN a
    ELSE IF Lt(a_cor, eps) /\ Leq(eps, b_cor) THEN b
    ELSE rho

step_safe(rho, a, b, a_cor, b_cor, eps) ==
    IF Gt(a_cor, eps) /\ Gt(b_cor, eps) THEN Sqrt(Mul(a, b))
    ELSE IF Gt(a_cor, eps) /\ Leq(b_cor, eps) THEN a
    ELSE IF Leq(a_cor, eps) /\ Gt(b_cor, eps) THEN b
    ELSE rho

\* a plausible slip: the candidate is returned without the clamp
step_spec_unclamped(rho, k, dx, dxbar, dy, dyhat, eps, C) ==
    IF \/ LeqPlusEps(SumSq(dx), Zero) \/ LeqPlusEps(SumSq(dxbar), Zero)
       \/ LeqPlusEps(SumSq(dy), Zero) \/ LeqPlusEps(SumSq(dyhat), Zero)
    THEN rho
    ELSE step_safe(rho, step_ls(dx, dyhat), step_ls(dxbar, dy),
                   step_cor(dx, dyhat), step_cor(dxbar, dy), eps)

step_spec(rho, k, dx, dxbar, dy, dyhat, eps, C) ==
    IF \/ LeqPlusEps(SumSq(dx), Zero) \/ LeqPlusEps(SumSq(dxbar), Zero)
       \/ LeqPlusEps(SumSq(dy), Zero) \/ LeqPlusEps(SumSq(dyhat), Zero)
    THEN rho
    ELSE LET a_hat == step_ls(dx, dyhat)
             b_hat == step_ls(dxbar, dy)
             a_cor == step_cor(dx, dyhat)
             b_cor == step_cor(dxbar, dy)
             scale == Add(One, Div(C, Num(k * k)))
             rho_hat == step_safe(rho, a_hat, b_hat, a_cor, b_cor, eps)
         IN  PyMax(PyMin(rho_hat, Mul(scale, rho)), Div(rho, scale))

(***************************************************************************)
(* Aggregator and stopping evaluator (x_average, res_stop).                *)
(***************************************************************************)
\* cvxpy.settings.INF_OR_UNB
INF_OR_UNB == {"infeasible", "infeasible_inaccurate", "unbounded", "unbounded_inaccurate"}

\* a plausible slip: only the status of the first report is looked at
IsInfOrUnbFirstOnly(prox_res, r) == r = 1 /\ prox_res[r].status \in INF_OR_UNB

\* line 212: the status of report r is infeasible or unbounded
IsInfOrUnb(prox_res, r) == prox_res[r].status \in INF_OR_UNB

\* line 217: rho[key]*value with value None is a TypeError
HasNone(prox_res, r) == \E key \in DOMAIN prox_res[r].xvals : prox_res[r].xvals[key] = NoneValue

\* the exception the loop of lines 210-218 leaves x_average with ("" if none):
\* that of the first report that raises one
RECURSIVE LoopError(_, _)
LoopError(prox_res, r) ==
    IF r > Len(prox_res) THEN ""
    ELSE IF IsInfOrUnb(prox_res, r) THEN "RuntimeError"
    ELSE IF HasNone(prox_res, r) THEN "TypeError"
    ELSE LoopError(prox_res, r + 1)

\* a plausible slip: the plain mean, dividing by the number of reports that
\* hold the key instead of by the sum of their step sizes
RhoSumCount(prox_res, n, key) ==
    Num(Cardinality({r \in 1..n : key \in DOMAIN prox_res[r].xvals}))

\* rho_sum[key] after the first n reports (a defaultdict(float): a report
\* without the key adds nothing)
RhoSum(prox_res, n, key) ==
    SumSeq([r \in 1..n |->
        IF key \in DOMAIN prox_res[r].xvals THEN prox_res[r].rho[key] ELSE Zero])

\* xmerge[key] after the first n reports (a defaultdict(list))
RECURSIVE XMerge(_, _, _)
XMerge(prox_res, n, key) ==
    IF n = 0 THEN <<>>
    ELSE IF key \in DOMAIN prox_res[n].xvals
         THEN Append(XMerge(prox_res, n - 1, key),
                     VScale(prox_res[n].rho[key], prox_res[n].xvals[key]))
         ELSE XMerge(prox_res, n - 1, key)

\* x_average: error = the exception it ends with, else "" and xbars = the
\* dictionary of line 220 over the keys of xmerge
x_average(prox_res) ==
    LET n == Len(prox_res)
        keys == UNION {DOMAIN prox_res[r].xvals : r \in 1..n}
        err == LoopError(prox_res, 1)
    IN  IF err # ""
        THEN [error |-> err, xbars |-> <<>>]
        ELSE [error |-> "",
              xbars |-> [key \in keys |->
                  VDivBy(VSumList(XMerge(prox_res, n, key)), RhoSum(prox_res, n, key))]]

\* a plausible slip: the primal test uses x_ssq alone, not max(x_ssq, xbar_ssq)
res_stop_no_max(res_ssq, eps) ==
    LET primal == SumSeq([r \in DOMAIN res_ssq |-> res_ssq[r].primal])
        dual == SumSeq([r \in DOMAIN res_ssq |-> res_ssq[r].dual])
        x_ssq == SumSeq([r \in DOMAIN res_ssq |-> res_ssq[r].x])
        u_ssq == SumSeq([r \in DOMAIN res_ssq |-> res_ssq[r].y])
        stopped == /\ LeqPlusEps(primal, Mul(eps, x_ssq))
                   /\ LeqPlusEps(dual, Mul(eps, u_ssq))
    IN  <<primal, dual, stopped>>

res_stop(res_ssq, eps) ==
    LET primal == SumSeq([r \in DOMAIN res_ssq |-> res_ssq[r].primal])
        dual == SumSeq([r \in DOMAIN res_ssq |-> res_ssq[r].dual])
        x_ssq == SumSeq([r \in DOMAIN res_ssq |-> res_ssq[r].x])
        xbar_ssq == SumSeq([r \in DOMAIN res_ssq |-> res_ssq[r].xbar])
        u_ssq == SumSeq([r \in DOMAIN res_ssq |-> res_ssq[r].y])
        stopped == /\ LeqPlusEps(primal, Mul(eps, PyMax(x_ssq, xbar_ssq)))
                   /\ LeqPlusEps(dual, Mul(eps, u_ssq))
    IN  <<primal, dual, stopped>>

(***************************************************************************)
(* Initial step sizes (assign_rho and its two calls in consensus).         *)
(***************************************************************************)
\* p_list[w] is modelled by the ids of prob.variables(); rho_init is a
\* dictionary id -> step size
\* a plausible slip: an id missing from the mapping gets 0.0
assign_rho_zero(p_list, rho_init, default) ==
    [w \in DOMAIN p_list |->
        [id \in p_list[w] |-> IF id \in DOMAIN rho_init THEN rho_init[id] ELSE Zero]]

\* a plausible slip: an id missing from the mapping gets 1.0 whatever the default
assign_rho_one(p_list, rho_init, default) ==
    [w \in DOMAIN p_list |->
        [id \in p_list[w] |-> IF id \in DOMAIN rho_init THEN rho_init[id] ELSE One]]

assign_rho(p_list, rho_init, default) ==
    [w \in DOMAIN p_list |->
        [id \in p_list[w] |-> IF id \in DOMAIN rho_init THEN rho_init[id] ELSE default]]

\* lines 320-324: rho_init is [isscalar, val]; val is a float or a dictionary
rho_list_of(p_list, rho_init) ==
    IF rho_init.isscalar
    THEN assign_rho(p_list, <<>>, rho_init.val)
    ELSE assign_rho(p_list, rho_init.val, One)

(***************************************************************************)
(* The run: consensus (coordinator) and N run_worker processes.            *)
(***************************************************************************)
VARIABLES
    kw,         \* the keyword arguments of consensus: max_iter, rho_init, eps, spectral, Tf, C
    inplace,    \* whether "y.value += ..." (line 286) adds into the array y.value hands out
    cpc,        \* coordinator: position in consensus
    iter,       \* coordinator: iterations the for loop of line 339 has begun
    i,          \* coordinator: the loop variable i (left at N-1 by the loop of line 331)
    pipe,       \* coordinator: position of "for pipe in pipes" / "for p in procs"
    prox_res,   \* coordinator: the list gathered at line 341
    xbars,      \* coordinator: [bound, val], the local xbars (unbound before line 342)
    ssq,        \* coordinator: the list gathered at line 349
    resid,      \* coordinator: the array resid, max_iter rows of <<primal, dual>>
    stopped,    \* coordinator: the local stopped of line 350
    result,     \* the dictionary consensus returns, <<>> before it returns
    toCoord,    \* toCoord[w]: messages worker w sent, not yet received (FIFO)
    toWorker,   \* toWorker[w]: messages sent to worker w, not yet received (FIFO)
    wpc,        \* worker: position in run_worker ("dead" once the process has ended)
    status,     \* worker: prox.status
    v,          \* worker: v[key] = [x, xbar, y, rho, yhat]
    v_old,      \* worker: v_old[key] = [x, xbar, y, yhat]
    recvd,      \* worker: the pair (xbars, i) of line 267
    sigterm,    \* sigterm[w]: SIGTERM sent to worker w by p.terminate(), not yet delivered
    solves,     \* history: local solves worker w has started
    reports,    \* history: residual reports worker w has sent (rounds it completed)
    spec_call,  \* history: per key, the arguments of worker w's latest call of step_spec
                \* (line 308) with the yhat of line 305 and what it returned, <<>> if none
    hist,       \* history: <<xbars, primal, dual>> of every round the coordinator completed
    fn,         \* the pure function applied when one is checked alone ("run" otherwise)
    args,       \* its arguments
    ret         \* its value, <<>> before the call

vars == <<kw, inplace, cpc, iter, i, pipe, prox_res, xbars, ssq, resid, stopped, result,
          toCoord, toWorker, wpc, status, v, v_old, recvd, sigterm,
          solves, reports, spec_call, hist, fn, args, ret>>

coordVars == <<cpc, iter, i, pipe, prox_res, xbars, ssq, resid, stopped, result, hist>>
workerVars == <<wpc, status, v, v_old, recvd, solves, reports, spec_call>>
pureVars == <<fn, args, ret>>

Workers == 1..N

\* the variable ids of each problem of p_list: variable 1 is shared by every
\* problem, variable 2 belongs to the first problem alone; every variable is
\* an array of one entry
p_list == [w \in Workers |-> IF w = 1 THEN {1, 2} ELSE {1}]
ZeroVec == <<Zero>>

\* what prox.solve can leave in the variable xid and in prox.status
XVals(xid) == IF xid = 1 THEN {<<Num(1)>>, <<Num(2)>>} ELSE {<<Num(0)>>}
Statuses == {"optimal", "infeasible", "unbounded"}

\* the keyword arguments the modelled runs are started with
RhoInits == {[isscalar |-> TRUE, val |-> Num(2)],
             [isscalar |-> FALSE, val |-> (1 :> Num(3))]}
Tolerances == {<<1, 2>>}
SpectralOpts == {[spectral |-> FALSE, Tf |-> 2], [spectral |-> TRUE, Tf |-> 2],
                 [spectral |-> TRUE, Tf |-> 1]}
\* run_worker's default eps = 0.2: consensus pops "eps" before it passes kwargs on
WorkerEps == <<1, 5>>

\* prox_step, lines 189-196: xbar, y and yhat are zero, x has no value, rho is rho_init[xid]
prox_step(prob, rho_init) ==
    [xid \in prob |-> [x |-> NoneValue, xbar |-> ZeroVec, y |-> ZeroVec,
                       rho |-> rho_init[xid], yhat |-> ZeroVec]]

\* lines 252-254
v_old_init(vmap) ==
    [key \in DOMAIN vmap |-> [x |-> ZeroVec, xbar |-> ZeroVec, y |-> ZeroVec, yhat |-> ZeroVec,
                               yshared |-> FALSE]]

\* a plausible slip: the rounds that adapt are those whose index is a multiple of Tf
AdaptsAtMultiples(spectral, ri, Tf) == spectral /\ ri % Tf = 0

\* line 297: this round adapts the step size
Adapts(spectral, ri, Tf) == spectral /\ ri % Tf = 1

NoMessage == <<>>

PureIdle == fn = "run" /\ args = <<>> /\ ret = <<>>

Init ==
    /\ kw \in {[max_iter |-> m, rho_init |-> r, eps |-> e, spectral |-> o.spectral,
                Tf |-> o.Tf, C |-> One] :
                  m \in 0..MaxIter, r \in RhoInits, e \in Tolerances, o \in SpectralOpts}
    /\ inplace \in (IF \E ri \in 0..(kw.max_iter - 1) : Adapts(kw.spectral, ri, kw.Tf)
                     THEN BOOLEAN ELSE {FALSE})
    /\ cpc = "for"
    /\ iter = 0
    /\ i = N - 1
    /\ pipe = 1
    /\ prox_res = <<>>
    /\ xbars = [bound |-> FALSE, val |-> <<>>]
    /\ ssq = <<>>
    /\ resid = [r \in 1..kw.max_iter |-> <<Zero, Zero>>]
    /\ stopped = FALSE
    /\ result = <<>>
    /\ toCoord = [w \in Workers |-> <<>>]
    /\ toWorker = [w \in Workers |-> <<>>]
    /\ wpc = [w \in Workers |-> "solve"]
    /\ status = [w \in Workers |-> "none"]
    /\ v = [w \in Workers |-> prox_step(p_list[w], rho_list_of(p_list, kw.rho_init)[w])]
    /\ v_old = [w \in Workers |-> v_old_init(v[w])]
    /\ recvd = [w \in Workers |-> NoMessage]
    /\ sigterm = [w \in Workers |-> FALSE]
    /\ solves = [w \in Workers |-> 0]
    /\ reports = [w \in Workers |-> 0]
    /\ spec_call = [w \in Workers |-> [key \in p_list[w] |-> <<>>]]
    /\ hist = <<>>
    /\ PureIdle

(***************************************************************************)
(* run_worker.                                                             *)
(***************************************************************************)
\* a plausible slip: pipe.recv() hands out the newest message
RecvNewest(ch) == ch[Len(ch)]

\* the message pipe.recv() hands out: the oldest one not yet received
Recv(ch) == Head(ch)

\* pipe.recv() blocks until the other end has sent a message
CanRecv(ch) == Len(ch) > 0

\* the keys of a dictionary of integer ids in increasing order
RECURSIVE KeySeq(_)
KeySeq(S) ==
    IF S = {} THEN <<>>
    ELSE LET m == CHOOSE a \in S : \A b \in S : a <= b
         IN  <<m>> \o KeySeq(S \ {m})

\* a plausible slip: the test of line 275 is inverted, the primal residual of a
\* variable that has a value is taken as -xbars[key]
update_key_inverted_none(vk, ok, xb, ri, spectral, Tf, eps, C, ip) ==
    LET primal == IF vk.x # NoneValue THEN VNeg(xb) ELSE VSub(vk.x, xb)
        dual == VScale(vk.rho, VSub(vk.xbar, xb))
        xbar_old == vk.xbar
        xbar_new == xb
        y_new == VAdd(vk.y, VScale(vk.rho, VSub(vk.x, xbar_new)))
        y_old == IF ip THEN y_new ELSE vk.y
        ok_y == IF ip /\ ok.yshared THEN y_new ELSE ok.y
        terms == [primal |-> SumSq(primal), dual |-> SumSq(dual),
                  x |-> IF vk.x # NoneValue THEN SumSq(vk.x) ELSE Zero,
                  xbar |-> SumSq(xbar_new), y |-> SumSq(y_new)]
        yhat == VAdd(y_old, VScale(vk.rho, VSub(vk.x, xbar_old)))
        dx == VSub(vk.x, ok.x)
        dxbar == VAdd(VNeg(xbar_new), ok.xbar)
        dy == VSub(y_new, ok_y)
        dyhat == VSub(yhat, ok.yhat)
        rho_new == step_spec(vk.rho, ri, dx, dxbar, dy, dyhat, eps, C)
        yhat_new == VAdd(y_old, VScale(rho_new, VSub(vk.x, xbar_old)))
    IN  IF Adapts(spectral, ri, Tf)
        THEN [v |-> [x |-> vk.x, xbar |-> xbar_new, y |-> y_new, rho |-> rho_new,
                     yhat |-> yhat_new],
              v_old |-> [x |-> vk.x, xbar |-> xbar_new, y |-> y_new, yhat |-> yhat_new,
                         yshared |-> ip],
              ssq |-> terms,
              call |-> [rho |-> vk.rho, k |-> ri, dx |-> dx, dxbar |-> dxbar, dy |-> dy,
                        dyhat |-> dyhat, yhat |-> yhat, ret |-> rho_new]]
        ELSE [v |-> [x |-> vk.x, xbar |-> xbar_new, y |-> y_new, rho |-> vk.rho,
                     yhat |-> vk.yhat],
              v_old |-> [ok EXCEPT !.y = ok_y],
              ssq |-> terms,
              call |-> <<>>]

\* a plausible slip: the dual update of line 286 is made before xbar is set, with
\* the consensus value of the round before
update_key_old_xbar(vk, ok, xb, ri, spectral, Tf, eps, C, ip) ==
    LET primal == IF vk.x = NoneValue THEN VNeg(xb) ELSE VSub(vk.x, xb)
        dual == VScale(vk.rho, VSub(vk.xbar, xb))
        xbar_old == vk.xbar
        xbar_new == xb
        y_new == VAdd(vk.y, VScale(vk.rho, VSub(vk.x, xbar_old)))
        y_old == IF ip THEN y_new ELSE vk.y
        ok_y == IF ip /\ ok.yshared THEN y_new ELSE ok.y
        terms == [primal |-> SumSq(primal), dual |-> SumSq(dual),
                  x |-> IF vk.x # NoneValue THEN SumSq(vk.x) ELSE Zero,
                  xbar |-> SumSq(xbar_new), y |-> SumSq(y_new)]
        yhat == VAdd(y_old, VScale(vk.rho, VSub(vk.x, xbar_old)))
        dx == VSub(vk.x, ok.x)
        dxbar == VAdd(VNeg(xbar_new), ok.xbar)
        dy == VSub(y_new, ok_y)
        dyhat == VSub(yhat, ok.yhat)
        rho_new == step_spec(vk.rho, ri, dx, dxbar, dy, dyhat, eps, C)
        yhat_new == VAdd(y_old, VScale(rho_new, VSub(vk.x, xbar_old)))
    IN  IF Adapts(spectral, ri, Tf)
        THEN [v |-> [x |-> vk.x, xbar |-> xbar_new, y |-> y_new, rho |-> rho_new,
                     yhat |-> yhat_new],
              v_old |-> [x |-> vk.x, xbar |-> xbar_new, y |-> y_new, yhat |-> yhat_new,
                         yshared |-> ip],
              ssq |-> terms,
              call |-> [rho |-> vk.rho, k |-> ri, dx |-> dx, dxbar |-> dxbar, dy |-> dy,
                        dyhat |-> dyhat, yhat |-> yhat, ret |-> rho_new]]
        ELSE [v |-> [x |-> vk.x, xbar |-> xbar_new, y |-> y_new, rho |-> vk.rho,
                     yhat |-> vk.yhat],
              v_old |-> [ok EXCEPT !.y = ok_y],
              ssq |-> terms,
              call |-> <<>>]

\* lines 272-314 for one key: vk = v[key], ok = v_old[key], xb = xbars[key],
\* ri = the round index received.  The value is the new v[key], the new
\* v_old[key], the key's terms of ssq and, in an adaptation round, the call of
\* step_spec (<<>> otherwise).
\*  - Line 286 needs a value of x: the statuses of Statuses outside INF_OR_UNB
\*    always come with one.
\*  - Line 286 is "y.value += ...".  y_old (line 283) and, after an adaptation,
\*    v_old[key]["y"] (line 313) are the object y.value handed out.  When the
\*    addition is made in place in that object (ip), both follow y; when it
\*    makes a new array, both keep their values.  ok.yshared records that
\*    v_old[key]["y"] is that object.
\*  - Line 299 binds yhat to an expression of the parameter rho, so that its
\*    value at line 305 is taken with the old step size and its value at line
\*    314 with the new one.
update_key(vk, ok, xb, ri, spectral, Tf, eps, C, ip) ==
    LET primal == IF vk.x = NoneValue THEN VNeg(xb) ELSE VSub(vk.x, xb)
        dual == VScale(vk.rho, VSub(vk.xbar, xb))
        xbar_old == vk.xbar
        xbar_new == xb
        y_new == VAdd(vk.y, VScale(vk.rho, VSub(vk.x, xbar_new)))
        y_old == IF ip THEN y_new ELSE vk.y
        ok_y == IF ip /\ ok.yshared THEN y_new ELSE ok.y
        terms == [primal |-> SumSq(primal), dual |-> SumSq(dual),
                  x |-> IF vk.x # NoneValue THEN SumSq(vk.x) ELSE Zero,
                  xbar |-> SumSq(xbar_new), y |-> SumSq(y_new)]
        yhat == VAdd(y_old, VScale(vk.rho, VSub(vk.x, xbar_old)))
        dx == VSub(vk.x, ok.x)
        dxbar == VAdd(VNeg(xbar_new), ok.xbar)
        dy == VSub(y_new, ok_y)
        dyhat == VSub(yhat, ok.yhat)
        rho_new == step_spec(vk.rho, ri, dx, dxbar, dy, dyhat, eps, C)
        yhat_new == VAdd(y_old, VScale(rho_new, VSub(vk.x, xbar_old)))
    IN  IF Adapts(spectral, ri, Tf)
        THEN [v |-> [x |-> vk.x, xbar |-> xbar_new, y |-> y_new, rho |-> rho_new,
                     yhat |-> yhat_new],
              v_old |-> [x |-> vk.x, xbar |-> xbar_new, y |-> y_new, yhat |-> yhat_new,
                         yshared |-> ip],
              ssq |-> terms,
              call |-> [rho |-> vk.rho, k |-> ri, dx |-> dx, dxbar |-> dxbar, dy |-> dy,
                        dyhat |-> dyhat, yhat |-> yhat, ret |-> rho_new]]
        ELSE [v |-> [x |-> vk.x, xbar |-> xbar_new, y |-> y_new, rho |-> vk.rho,
                     yhat |-> vk.yhat],
              v_old |-> [ok EXCEPT !.y = ok_y],
              ssq |-> terms,
              call |-> <<>>]

\* ssq of lines 270-294: the terms of the keys added up in the order of v.keys()
ssq_of(upd, field) ==
    LET keys == KeySeq(DOMAIN upd)
    IN  SumSeq([q \in DOMAIN keys |-> upd[keys[q]].ssq[field]])

\* lines 258-266: prox.solve returns, leaving a status and (unless the problem
\* is infeasible or unbounded) a value in every variable, and the report
\* (prox.status, rvals, xvals) is sent; worker and round are history: the
\* sender and the number of its local solve
WorkerSolve(w) ==
    /\ wpc[w] = "solve"
    /\ \E st \in Statuses :
         \E xs \in [DOMAIN v[w] -> UNION {XVals(xid) : xid \in DOMAIN v[w]}] :
           /\ \A xid \in DOMAIN v[w] : xs[xid] \in XVals(xid)
           /\ st \in INF_OR_UNB => xs = [xid \in DOMAIN v[w] |-> CHOOSE x \in XVals(xid) : TRUE]
           /\ status' = [status EXCEPT ![w] = st]
           /\ v' = [v EXCEPT ![w] = [key \in DOMAIN v[w] |->
                     [v[w][key] EXCEPT !.x = IF st \in INF_OR_UNB THEN NoneValue ELSE xs[key]]]]
    /\ solves' = [solves EXCEPT ![w] = @ + 1]
    /\ toCoord' = [toCoord EXCEPT ![w] = Append(@,
                     [status |-> status'[w],
                      rho |-> [key \in DOMAIN v[w] |-> v'[w][key].rho],
                      xvals |-> [key \in DOMAIN v[w] |-> v'[w][key].x],
                      worker |-> w, round |-> solves'[w]])]
    /\ wpc' = [wpc EXCEPT ![w] = "recv"]
    /\ UNCHANGED <<kw, inplace, coordVars, toWorker, v_old, recvd, sigterm, reports, spec_call,
                   pureVars>>

\* line 267: xbars, i = pipe.recv()
WorkerRecv(w) ==
    /\ wpc[w] = "recv"
    /\ CanRecv(toWorker[w])
    /\ recvd' = [recvd EXCEPT ![w] = Recv(toWorker[w])]
    /\ toWorker' = [toWorker EXCEPT ![w] = Tail(@)]
    /\ wpc' = [wpc EXCEPT ![w] = "update"]
    /\ UNCHANGED <<kw, inplace, coordVars, toCoord, status, v, v_old, sigterm, solves, reports,
                   spec_call, pureVars>>

\* lines 269-315: the loop over v.keys() and pipe.send(ssq); worker and round
\* are history: the sender and the round index its xbars came with
WorkerUpdate(w) ==
    /\ wpc[w] = "update"
    /\ LET upd == [key \in DOMAIN v[w] |->
                     update_key(v[w][key], v_old[w][key], recvd[w].xbars[key], recvd[w].i,
                                kw.spectral, kw.Tf, WorkerEps, kw.C, inplace)]
       IN  /\ v' = [v EXCEPT ![w] = [key \in DOMAIN v[w] |-> upd[key].v]]
           /\ v_old' = [v_old EXCEPT ![w] = [key \in DOMAIN v[w] |-> upd[key].v_old]]
           /\ spec_call' = [spec_call EXCEPT ![w] = [key \in DOMAIN v[w] |->
                               IF upd[key].call # <<>> THEN upd[key].call ELSE spec_call[w][key]]]
           /\ toCoord' = [toCoord EXCEPT ![w] = Append(@,
                            [primal |-> ssq_of(upd, "primal"), dual |-> ssq_of(upd, "dual"),
                             x |-> ssq_of(upd, "x"), xbar |-> ssq_of(upd, "xbar"),
                             y |-> ssq_of(upd, "y"),
                             worker |-> w, round |-> recvd[w].i])]
    /\ reports' = [reports EXCEPT ![w] = @ + 1]
    /\ wpc' = [wpc EXCEPT ![w] = "solve"]
    /\ UNCHANGED <<kw, inplace, coordVars, toWorker, status, recvd, sigterm, solves, pureVars>>

\* the SIGTERM of Process.terminate() is delivered: the process ends, wherever
\* it is, and its memory (prox, v, v_old, the locals) is gone
WorkerKilled(w) ==
    /\ sigterm[w]
    /\ wpc[w] # "dead"
    /\ wpc' = [wpc EXCEPT ![w] = "dead"]
    /\ sigterm' = [sigterm EXCEPT ![w] = FALSE]
    /\ status' = [status EXCEPT ![w] = "none"]
    /\ v' = [v EXCEPT ![w] = <<>>]
    /\ v_old' = [v_old EXCEPT ![w] = <<>>]
    /\ recvd' = [recvd EXCEPT ![w] = NoMessage]
    /\ spec_call' = [spec_call EXCEPT ![w] = <<>>]
    /\ UNCHANGED <<kw, inplace, coordVars, toCoord, toWorker, solves, reports, pureVars>>

run_worker(w) ==
    \/ WorkerSolve(w)
    \/ WorkerRecv(w)
    \/ WorkerUpdate(w)
    \/ WorkerKilled(w)

(***************************************************************************)
(* consensus.                                                              *)
(***************************************************************************)
\* a plausible slip: the comprehensions of lines 341 and 349 stop after the first pipe
LastPipeFirstOnly(pp) == pp = 1

\* "for pipe in pipes" has reached the last pipe
LastPipe(pp) == pp = N

\* a plausible slip: the loop goes on although the stopping rule was met
LoopEndsNever(stop) == FALSE

\* lines 352-353: "if stopped: break"
LoopEnds(stop) == stop

\* line 339: the for loop takes its next value of i, or is exhausted
ForLoop ==
    /\ cpc = "for"
    /\ IF iter < kw.max_iter
       THEN /\ i' = iter
            /\ iter' = iter + 1
            /\ cpc' = "gather"
            /\ pipe' = 1
            /\ prox_res' = <<>>
       ELSE /\ cpc' = "terminate"
            /\ pipe' = 1
            /\ UNCHANGED <<i, iter, prox_res>>
    /\ UNCHANGED <<kw, inplace, xbars, ssq, resid, stopped, result, hist, toCoord, toWorker,
                   workerVars, sigterm, pureVars>>

\* line 341, one pipe.recv() of the comprehension
GatherProx ==
    /\ cpc = "gather"
    /\ CanRecv(toCoord[pipe])
    /\ prox_res' = Append(prox_res, Recv(toCoord[pipe]))
    /\ toCoord' = [toCoord EXCEPT ![pipe] = Tail(@)]
    /\ IF LastPipe(pipe)
       THEN cpc' = "average" /\ pipe' = 1
       ELSE cpc' = cpc /\ pipe' = pipe + 1
    /\ UNCHANGED <<kw, inplace, iter, i, xbars, ssq, resid, stopped, result, hist, toWorker,
                   workerVars, sigterm, pureVars>>

\* line 342: xbars = x_average(prox_res); an exception of x_average leaves consensus
Average ==
    /\ cpc = "average"
    /\ LET avg == x_average(prox_res)
       IN  IF avg.error # ""
           THEN cpc' = avg.error /\ UNCHANGED xbars
           ELSE cpc' = "scatter" /\ xbars' = [bound |-> TRUE, val |-> avg.xbars]
    /\ UNCHANGED <<kw, inplace, iter, i, pipe, prox_res, ssq, resid, stopped, result, hist,
                   toCoord, toWorker, workerVars, sigterm, pureVars>>

\* lines 345-346, one pipe.send((xbars, i))
Scatter ==
    /\ cpc = "scatter"
    /\ toWorker' = [toWorker EXCEPT ![pipe] = Append(@, [xbars |-> xbars.val, i |-> i])]
    /\ IF LastPipe(pipe)
       THEN cpc' = "gather_ssq" /\ pipe' = 1 /\ ssq' = <<>>
       ELSE cpc' = cpc /\ pipe' = pipe + 1 /\ ssq' = ssq
    /\ UNCHANGED <<kw, inplace, iter, i, prox_res, xbars, resid, stopped, result, hist,
                   toCoord, workerVars, sigterm, pureVars>>

\* line 349, one pipe.recv() of the comprehension
GatherSsq ==
    /\ cpc = "gather_ssq"
    /\ CanRecv(toCoord[pipe])
    /\ ssq' = Append(ssq, Recv(toCoord[pipe]))
    /\ toCoord' = [toCoord EXCEPT ![pipe] = Tail(@)]
    /\ IF LastPipe(pipe)
       THEN cpc' = "res_stop" /\ pipe' = 1
       ELSE cpc' = cpc /\ pipe' = pipe + 1
    /\ UNCHANGED <<kw, inplace, iter, i, prox_res, xbars, resid, stopped, result, hist,
                   toWorker, workerVars, sigterm, pureVars>>

\* lines 350-353: the stopping rule, the row of resid, and the break
ResStop ==
    /\ cpc = "res_stop"
    /\ LET r == res_stop(ssq, kw.eps)
       IN  /\ resid' = [resid EXCEPT ![i + 1] = <<r[1], r[2]>>]
           /\ stopped' = r[3]
           /\ hist' = Append(hist, <<xbars.val, r[1], r[2]>>)
           /\ cpc' = IF LoopEnds(r[3]) THEN "terminate" ELSE "for"
    /\ pipe' = 1
    /\ UNCHANGED <<kw, inplace, iter, i, prox_res, xbars, ssq, result, toCoord, toWorker,
                   workerVars, sigterm, pureVars>>

\* line 356, one p.terminate(): SIGTERM is sent, nothing is waited for
Terminate ==
    /\ cpc = "terminate"
    /\ sigterm' = [sigterm EXCEPT ![pipe] = wpc[pipe] # "dead"]
    /\ IF LastPipe(pipe)
       THEN cpc' = "return" /\ pipe' = 1
       ELSE cpc' = cpc /\ pipe' = pipe + 1
    /\ UNCHANGED <<kw, inplace, iter, i, prox_res, xbars, ssq, resid, stopped, result, hist,
                   toCoord, toWorker, workerVars, pureVars>>

\* line 357: the dictionary is built from xbars, resid and i; reading the
\* unbound local xbars raises UnboundLocalError
Return ==
    /\ cpc = "return"
    /\ IF xbars.bound
       THEN /\ result' = [xbars |-> xbars.val,
                          residuals |-> SubSeq(resid, 1, i + 1),
                          num_iters |-> i + 1]
            /\ cpc' = "returned"
       ELSE /\ cpc' = "UnboundLocalError"
            /\ UNCHANGED result
    /\ UNCHANGED <<kw, inplace, iter, i, pipe, prox_res, xbars, ssq, resid, stopped, hist,
                   toCoord, toWorker, workerVars, sigterm, pureVars>>

consensus ==
    \/ ForLoop
    \/ GatherProx
    \/ Average
    \/ Scatter
    \/ GatherSsq
    \/ ResStop
    \/ Terminate
    \/ Return

Next ==
    \/ consensus
    \/ \E w \in Workers : run_worker(w)

Spec == Init /\ [][Next]_vars

\* run_worker(w) as it shows in the position of worker w alone: every step of
\* run_worker(w) is one of these, and one of these can be taken exactly when
\* run_worker(w) can take a step
WorkerStep(w) ==
    \/ wpc[w] = "solve" /\ wpc' = [wpc EXCEPT ![w] = "recv"]
    \/ wpc[w] = "recv" /\ CanRecv(toWorker[w]) /\ wpc' = [wpc EXCEPT ![w] = "update"]
    \/ wpc[w] = "update" /\ wpc' = [wpc EXCEPT ![w] = "solve"]
    \/ sigterm[w] /\ wpc[w] # "dead" /\ wpc' = [wpc EXCEPT ![w] = "dead"]

\* consensus as it shows in the position of the coordinator alone: every step
\* of consensus is one of these, and one of these can be taken exactly when
\* consensus can take a step (a recv of lines 341 and 349 waits for a message)
CoordStep ==
    /\ \/ cpc \in {"for", "average", "scatter", "res_stop", "terminate", "return"}
       \/ cpc \in {"gather", "gather_ssq"} /\ CanRecv(toCoord[pipe])
    /\ \E c \in {"for", "gather", "average", "scatter", "gather_ssq", "res_stop", "terminate",
                  "return", "returned", "RuntimeError", "TypeError", "UnboundLocalError"} :
         \E pp \in Workers :
           /\ <<c, pp>> # <<cpc, pipe>>
           /\ cpc' = c
           /\ pipe' = pp

\* every process that can take a step eventually takes one: the coordinator and
\* the workers are separate operating-system processes
FairSpec ==
    /\ Spec
    /\ WF_<<cpc, pipe>>(CoordStep)
    /\ \A w \in Workers : WF_wpc(WorkerStep(w))

(***************************************************************************)
(* Properties of the run.                                                  *)
(***************************************************************************)
\* C1 as stated: in every reachable state, the local solves any worker has
\* started exceed the rounds the slowest worker has completed by at most one.
C1_StartedWithinOneOfCompleted ==
    \A w \in Workers : \A u \in Workers : solves[w] <= reports[u] + 1

\* C1 as amended: in every reachable state, the local solves any worker has
\* started exceed the local solves the slowest worker has started by at most
\* one, and the rounds the slowest worker has completed by at most two.
C1_OneRoundAhead ==
    \A w \in Workers : \A u \in Workers :
        /\ solves[w] <= solves[u] + 1
        /\ solves[w] <= reports[u] + 2

\* a worker is in its second local solve while a peer has not yet taken the
\* consensus value of the first round
C1_Witness ==
    \E w \in Workers : \E u \in Workers :
        /\ solves[w] = 2
        /\ wpc[w] = "recv"
        /\ solves[u] = 1
        /\ reports[u] = 0
        /\ wpc[u] = "recv"

\* C2: once the N reports of a round are gathered and one of them, at any
\* position, carries an infeasible or unbounded status, the run has ended
\* with the RuntimeError of x_average in that round (no consensus value of
\* the round was sent, no row of the round was written) and has returned
\* nothing.
C2_InfeasibleAborts ==
    (/\ Len(prox_res) = N
     /\ cpc # "average"
     /\ \E r \in 1..N : prox_res[r].status \in {"infeasible", "unbounded"})
    => /\ cpc = "RuntimeError"
       /\ result = <<>>
       /\ Len(hist) = iter - 1
       /\ \A w \in Workers : \A m \in 1..Len(toWorker[w]) : toWorker[w][m].i # i
       /\ \A w \in Workers : recvd[w] # NoMessage => recvd[w].i # i

\* the run aborted in its second round on a report that is not the first of
\* the list, the first report being optimal
C2_Witness ==
    /\ cpc = "RuntimeError"
    /\ iter = 2
    /\ prox_res[1].status = "optimal"
    /\ prox_res[N].status = "infeasible"

\* C3: under fairness, if no local solve returns an infeasible or unbounded
\* status, the run eventually returns a result.
C3_EventuallyReturns ==
    <>(cpc = "returned" \/ \E w \in Workers : status[w] \in INF_OR_UNB)

\* C4: once consensus has left its loop and executed its return statement
\* (for every max_iter >= 0), it has returned a result whose num_iters is the
\* number of rounds executed, whose residuals are the (primal, dual) pairs of
\* these rounds in order, and whose xbars is the consensus value of the last
\* round.
C4_ResultMatchesRounds ==
    cpc \in {"returned", "UnboundLocalError"}
    => /\ cpc = "returned"
       /\ result.num_iters = Len(hist)
       /\ Len(result.residuals) = result.num_iters
       /\ \A r \in 1..Len(hist) : result.residuals[r] = <<hist[r][2], hist[r][3]>>
       /\ Len(hist) > 0 => result.xbars = hist[Len(hist)][1]

\* C5: the coordinator leaves the head of its loop into a new round exactly
\* when rounds are left (iter < max_iter), leaves the stopping test to the head
\* of the loop exactly when the evaluator returned converged = false, and once
\* the evaluator has returned converged = true no round is started, no
\* consensus value is sent and no row of the history is written.
C5_StopIsFinal ==
    [][/\ iter' # iter => (iter' = iter + 1 /\ iter < kw.max_iter /\ (iter > 0 => ~stopped))
       /\ (cpc = "for" /\ cpc' # cpc) => (cpc' = "gather" <=> iter < kw.max_iter)
       /\ (cpc = "res_stop" /\ cpc' # cpc) => (cpc' = "for" <=> ~stopped')
       /\ stopped => /\ iter' = iter
                     /\ hist' = hist
                     /\ \A w \in Workers : Len(toWorker'[w]) <= Len(toWorker[w])]_vars

\* the run returned after the evaluator stopped it before the budget was used up
C5_Witness ==
    /\ cpc = "returned"
    /\ stopped
    /\ iter < kw.max_iter

\* C6: when the run has returned a result, every worker process has ended.
C6_WorkersEndedAtReturn ==
    cpc = "returned" => \A w \in Workers : wpc[w] = "dead"

\* C7: every report in the list the aggregator is given is a local-solve
\* report, the j-th one by worker j from its local solve of this round; every
\* report in the list the stopping evaluator is given is a residual report, the
\* j-th one by worker j from the consensus value of this round; both lists hold
\* N reports when the function is called; the consensus value a worker
\* updates from is the one of this round.
C7_ReportsOfTheRound ==
    /\ \A j \in 1..Len(prox_res) :
          /\ "status" \in DOMAIN prox_res[j]
          /\ prox_res[j].worker = j
          /\ prox_res[j].round = iter
    /\ \A j \in 1..Len(ssq) :
          /\ "primal" \in DOMAIN ssq[j]
          /\ ssq[j].worker = j
          /\ cpc \in {"gather_ssq", "res_stop"} => ssq[j].round = i
    /\ cpc = "average" => Len(prox_res) = N
    /\ cpc = "res_stop" => Len(ssq) = N
    /\ \A w \in Workers : wpc[w] = "update" =>
          /\ recvd[w].i = solves[w] - 1
          /\ recvd[w].i = i
          /\ recvd[w].xbars = xbars.val

\* the coordinator is reading the residual reports of a round, has not yet
\* read the one of the last worker, and the first worker's pipe already holds
\* its local-solve report of the next round
C7_Witness ==
    /\ cpc = "gather_ssq"
    /\ Len(ssq) < N
    /\ Len(toCoord[1]) > 0
    /\ "status" \in DOMAIN toCoord[1][Len(toCoord[1])]
    /\ toCoord[1][Len(toCoord[1])].round = iter + 1

(***************************************************************************)
(* The pure functions checked alone: the arguments are drawn in the        *)
(* initial state, the one action calls the function.                       *)
(***************************************************************************)
\* the run is not started
RunIdle ==
    /\ kw = [max_iter |-> 0, rho_init |-> [isscalar |-> TRUE, val |-> One], eps |-> One,
             spectral |-> FALSE, Tf |-> 2, C |-> One]
    /\ inplace = FALSE
    /\ cpc = "idle"
    /\ iter = 0
    /\ i = 0
    /\ pipe = 1
    /\ prox_res = <<>>
    /\ xbars = [bound |-> FALSE, val |-> <<>>]
    /\ ssq = <<>>
    /\ resid = <<>>
    /\ stopped = FALSE
    /\ result = <<>>
    /\ toCoord = [w \in Workers |-> <<>>]
    /\ toWorker = [w \in Workers |-> <<>>]
    /\ wpc = [w \in Workers |-> "idle"]
    /\ status = [w \in Workers |-> "none"]
    /\ v = [w \in Workers |-> <<>>]
    /\ v_old = [w \in Workers |-> <<>>]
    /\ recvd = [w \in Workers |-> NoMessage]
    /\ sigterm = [w \in Workers |-> FALSE]
    /\ solves = [w \in Workers |-> 0]
    /\ reports = [w \in Workers |-> 0]
    /\ spec_call = [w \in Workers |-> <<>>]
    /\ hist = <<>>

runVars == <<kw, inplace, coordVars, toCoord, toWorker, workerVars, sigterm>>

\* the reports x_average is given: a worker holds variable 1, variable 2 or
\* both, with step sizes 1 or 2; an infeasible problem leaves no value
AvgReports ==
    {[status |-> "optimal", rho |-> r, xvals |-> x] :
        r \in [{1} -> {Num(1), Num(2)}], x \in [{1} -> {<<Num(1)>>, <<Num(5)>>}]}
    \cup {[status |-> "optimal", rho |-> r, xvals |-> x] :
        r \in [{2} -> {Num(1), Num(2)}], x \in [{2} -> {<<Num(5)>>}]}
    \cup {[status |-> "optimal", rho |-> r, xvals |-> x] :
        r \in [{1, 2} -> {Num(1), Num(2)}],
        x \in {f \in [{1, 2} -> {<<Num(1)>>, <<Num(5)>>}] : f[2] = <<Num(5)>>}}
    \cup {[status |-> st, rho |-> (1 :> Num(1)), xvals |-> (1 :> NoneValue)] :
             st \in {"infeasible", "unbounded"}}

InitAverage ==
    /\ RunIdle
    /\ fn = "x_average"
    /\ args \in UNION {[1..n -> AvgReports] : n \in 1..MaxReports}
    /\ ret = <<>>

CallAverage ==
    /\ fn = "x_average"
    /\ ret = <<>>
    /\ ret' = <<x_average(args)>>
    /\ UNCHANGED <<runVars, fn, args>>

SpecAverage == InitAverage /\ [][CallAverage]_vars

\* the residual reports res_stop is given, and the tolerances
SsqReports ==
    [primal : {Num(0), Num(1)}, dual : {Num(0), Num(1)}, x : {Num(0), Num(1)},
     xbar : {Num(0), Num(1)}, y : {Num(0), Num(1)}]
StopTolerances == {<<1, 2>>, <<1, 1>>}

InitStop ==
    /\ RunIdle
    /\ fn = "res_stop"
    /\ args \in [res_ssq : UNION {[1..n -> SsqReports] : n \in 1..MaxSsqReports},
                 eps : StopTolerances]
    /\ ret = <<>>

CallStop ==
    /\ fn = "res_stop"
    /\ ret = <<>>
    /\ ret' = <<res_stop(args.res_ssq, args.eps)>>
    /\ UNCHANGED <<runVars, fn, args>>

SpecStop == InitStop /\ [][CallStop]_vars

\* the arguments step_spec is given
StepVecs == {<<Num(0), Num(0)>>, <<Num(1), Num(0)>>, <<Num(1), Num(1)>>,
             <<Num(-1), Num(1)>>, <<Num(1), Num(2)>>, <<Num(0), Num(-1)>>}
StepRhos == {Num(1), Num(2)}
StepEps == {<<1, 5>>, <<3, 4>>}
StepC == {One}

InitStep ==
    /\ RunIdle
    /\ fn = "step_spec"
    /\ args \in [rho : StepRhos, k : 1..MaxK, dx : StepVecs, dxbar : StepVecs,
                 dy : StepVecs, dyhat : StepVecs, eps : StepEps, C : StepC]
    /\ ret = <<>>

CallStep ==
    /\ fn = "step_spec"
    /\ ret = <<>>
    /\ ret' = <<step_spec(args.rho, args.k, args.dx, args.dxbar, args.dy, args.dyhat,
                          args.eps, args.C)>>
    /\ UNCHANGED <<runVars, fn, args>>

SpecStep == InitStep /\ [][CallStep]_vars

\* the arguments step_safe is given: correlations below, at and above the
\* thresholds; the products a*b are squares of whole numbers
SafeRhos == {Num(1), Num(3)}
SafeA == {<<1, 2>>, Num(2)}
SafeB == {Num(2), Num(8)}
SafeCors == {<<-1, 2>>, <<1, 5>>, <<1, 2>>, Num(1)}
SafeEps == {<<1, 5>>, <<3, 4>>}

InitSafe ==
    /\ RunIdle
    /\ fn = "step_safe"
    /\ args \in [rho : SafeRhos, a : SafeA, b : SafeB, a_cor : SafeCors, b_cor : SafeCors,
                 eps : SafeEps]
    /\ ret = <<>>

CallSafe ==
    /\ fn = "step_safe"
    /\ ret = <<>>
    /\ ret' = <<step_safe(args.rho, args.a, args.b, args.a_cor, args.b_cor, args.eps)>>
    /\ UNCHANGED <<runVars, fn, args>>

SpecSafe == InitSafe /\ [][CallSafe]_vars

\* the lists of problems and the rho_init consensus is given: a float, or a
\* dictionary over some of the ids 1, 2, 3 (id 3 belongs to no problem)
RhoProblems == {<<{1, 2}, {1}>>, <<{1}, {2}>>}
RhoValues == {<<1, 2>>, Num(2), Num(3)}
RhoArgs ==
    {[isscalar |-> TRUE, val |-> c] : c \in RhoValues}
    \cup {[isscalar |-> FALSE, val |-> m] : m \in UNION {[S -> RhoValues] : S \in SUBSET {1, 2, 3}}}

InitRho ==
    /\ RunIdle
    /\ fn = "assign_rho"
    /\ args \in [p_list : RhoProblems, rho_init : RhoArgs]
    /\ ret = <<>>

CallRho ==
    /\ fn = "assign_rho"
    /\ ret = <<>>
    /\ ret' = <<rho_list_of(args.p_list, args.rho_init)>>
    /\ UNCHANGED <<runVars, fn, args>>

SpecRho == InitRho /\ [][CallRho]_vars

(***************************************************************************)
(* Properties of the pure functions.                                       *)
(***************************************************************************)
\* the sum of f[r] over the set S of indices
RECURSIVE SetSum(_, _)
SetSum(f, S) ==
    IF S = {} THEN 0
    ELSE LET r == CHOOSE q \in S : TRUE IN f[r] + SetSum(f, S \ {r})

\* the reports that hold the variable id
Owners(reps, id) == {r \in DOMAIN reps : id \in DOMAIN reps[r].xvals}

\* C8: for reports none of which is infeasible or unbounded, x_average
\* returns a value for exactly the variable ids that appear in a report, and
\* the value for an id is sum(rho_i * x_i) / sum(rho_i) over the reports that
\* hold the id; two reports of 5 and 1 with rho = 1 give 3.  (The step sizes
\* and values drawn are whole numbers, so both sums are taken in integers.)
C8_WeightedAverage ==
    (fn = "x_average" /\ ret # <<>>
     /\ \A r \in DOMAIN args : args[r].status \notin {"infeasible", "unbounded"})
    => /\ ret[1].error = ""
       /\ DOMAIN ret[1].xbars = UNION {DOMAIN args[r].xvals : r \in DOMAIN args}
       /\ \A id \in DOMAIN ret[1].xbars :
             LET own == Owners(args, id)
                 num == SetSum([r \in own |-> args[r].rho[id][1] * args[r].xvals[id][1][1]], own)
                 den == SetSum([r \in own |-> args[r].rho[id][1]], own)
             IN  /\ Len(ret[1].xbars[id]) = 1
                 /\ ret[1].xbars[id][1][1] * den = num * ret[1].xbars[id][1][2]
                 /\ ret[1].xbars[id][1][2] > 0
       /\ (/\ Len(args) = 2
           /\ args[1].xvals = (1 :> <<Num(5)>>) /\ args[1].rho = (1 :> Num(1))
           /\ args[2].xvals = (1 :> <<Num(1)>>) /\ args[2].rho = (1 :> Num(1)))
          => ret[1].xbars = (1 :> <<Num(3)>>)

\* x_average has averaged three reports: variable 1 is held by two of them
\* with different step sizes and different values, the third holds variable 2 alone
C8_Witness ==
    /\ fn = "x_average"
    /\ ret # <<>>
    /\ ret[1].error = ""
    /\ Len(args) = 3
    /\ Owners(args, 1) = {1, 2}
    /\ Owners(args, 2) = {2, 3}
    /\ args[1].rho[1] = Num(2) /\ args[2].rho[1] = Num(1)
    /\ args[1].xvals[1] = <<Num(1)>> /\ args[2].xvals[1] = <<Num(5)>>
    /\ ret[1].xbars[1] = <<<<7, 3>>>>

\* the total of a field over the residual reports, as an integer (the values
\* drawn are whole numbers)
FieldTotal(res_ssq, field) ==
    SetSum([r \in DOMAIN res_ssq |-> res_ssq[r][field][1]], DOMAIN res_ssq)

\* C9: res_stop returns the totals of primal and dual over all reports, and
\* converged = true exactly when primal_total <= eps * max(x_total, xbar_total)
\* + eps_fl and dual_total <= eps * y_total + eps_fl; zero primal and dual
\* totals with a positive x total give converged = true.  (With eps = n/d and
\* whole totals, a <= eps * b + 2^-52 is d * a <= n * b: both sides of the
\* latter are whole numbers and d * 2^-52 < 1.)
C9_StoppingRule ==
    (fn = "res_stop" /\ ret # <<>>)
    => LET P == FieldTotal(args.res_ssq, "primal")
           D == FieldTotal(args.res_ssq, "dual")
           X == FieldTotal(args.res_ssq, "x")
           XB == FieldTotal(args.res_ssq, "xbar")
           Y == FieldTotal(args.res_ssq, "y")
           M == IF X >= XB THEN X ELSE XB
       IN  /\ ret[1][1] = Num(P)
           /\ ret[1][2] = Num(D)
           /\ ret[1][3] <=> (/\ args.eps[2] * P <= args.eps[1] * M
                             /\ args.eps[2] * D <= args.eps[1] * Y)
           /\ (P = 0 /\ D = 0 /\ X > 0) => ret[1][3]

\* res_stop has answered converged = true on two reports whose primal total
\* meets the bound only through xbar (x is zero) and whose dual total equals
\* its bound
C9_Witness ==
    /\ fn = "res_stop"
    /\ ret # <<>>
    /\ ret[1][3]
    /\ Len(args.res_ssq) = 2
    /\ args.eps = <<1, 2>>
    /\ FieldTotal(args.res_ssq, "primal") = 1
    /\ FieldTotal(args.res_ssq, "x") = 0
    /\ FieldTotal(args.res_ssq, "xbar") = 2
    /\ FieldTotal(args.res_ssq, "dual") = 1
    /\ FieldTotal(args.res_ssq, "y") = 2

\* C10: for rho > 0 and k >= 1 the step size step_spec returns lies in
\* [rho / (1 + C/k^2), rho * (1 + C/k^2)], whichever branch chose the candidate.
C10_StepWithinClamp ==
    (fn = "step_spec" /\ ret # <<>>)
    => LET scale == Add(One, Div(args.C, Num(args.k * args.k)))
       IN  /\ Leq(Div(args.rho, scale), ret[1])
           /\ Leq(ret[1], Mul(args.rho, scale))

\* step_spec has returned the upper end of the interval: both correlations
\* exceed eps and the candidate sqrt(a*b) lies above rho * scale
C10_Witness ==
    /\ fn = "step_spec"
    /\ ret # <<>>
    /\ Gt(step_cor(args.dx, args.dyhat), args.eps)
    /\ Gt(step_cor(args.dxbar, args.dy), args.eps)
    /\ Gt(Sqrt(Mul(step_ls(args.dx, args.dyhat), step_ls(args.dxbar, args.dy))),
          Mul(args.rho, Add(One, Div(args.C, Num(args.k * args.k)))))
    /\ ret[1] = Mul(args.rho, Add(One, Div(args.C, Num(args.k * args.k))))


\* a_cor > eps for floats n/d with d > 0, taken in integers
Exceeds(c, eps) == c[1] * eps[2] > eps[1] * c[2]

\* C11: step_safe returns sqrt(a*b) when both correlations exceed eps, a when
\* only a_cor does, b when only b_cor does, and rho when neither does; a
\* correlation equal to eps does not exceed it.  (The products a*b drawn are
\* squares, so sqrt(a*b) is the non-negative number whose square is a*b.)
C11_SafeguardCases ==
    (fn = "step_safe" /\ ret # <<>>)
    => LET ga == Exceeds(args.a_cor, args.eps)
           gb == Exceeds(args.b_cor, args.eps)
       IN  /\ (ga /\ gb) => (Mul(ret[1], ret[1]) = Mul(args.a, args.b) /\ ret[1][1] >= 0)
           /\ (ga /\ ~gb) => ret[1] = args.a
           /\ (~ga /\ gb) => ret[1] = args.b
           /\ (~ga /\ ~gb) => ret[1] = args.rho

\* step_safe has returned b: b_cor exceeds eps and a_cor equals eps
C11_Witness ==
    /\ fn = "step_safe"
    /\ ret # <<>>
    /\ args.a_cor = args.eps
    /\ Exceeds(args.b_cor, args.eps)
    /\ ret[1] = args.b
    /\ args.b # args.a
    /\ args.b # args.rho

\* C13: a scalar rho_init gives that scalar to every variable of every
\* problem; a mapping gives every variable whose id it holds the mapped value
\* and every other variable 1.0; the result has one dictionary per problem,
\* over the ids of its variables.
C13_RhoNormalized ==
    (fn = "assign_rho" /\ ret # <<>>)
    => /\ DOMAIN ret[1] = DOMAIN args.p_list
       /\ \A w \in DOMAIN args.p_list :
             /\ DOMAIN ret[1][w] = args.p_list[w]
             /\ \A id \in args.p_list[w] :
                   IF args.rho_init.isscalar THEN ret[1][w][id] = args.rho_init.val
                   ELSE IF id \in DOMAIN args.rho_init.val
                        THEN ret[1][w][id] = args.rho_init.val[id]
                        ELSE ret[1][w][id] = <<1, 1>>

\* assign_rho was given a mapping that holds id 1 but not id 2, and a problem
\* with both variables
C13_Witness ==
    /\ fn = "assign_rho"
    /\ ret # <<>>
    /\ ~args.rho_init.isscalar
    /\ DOMAIN args.rho_init.val = {1, 3}
    /\ args.rho_init.val[1] = Num(3)
    /\ args.p_list[1] = {1, 2}
    /\ ret[1][1] = (1 :> Num(3)) @@ (2 :> One)


(***************************************************************************)
(* Properties of the worker's update.                                      *)
(***************************************************************************)
\* worker w takes the step of lines 269-315
UpdateStep(w) == wpc[w] = "update" /\ wpc'[w] = "solve"

\* the round worker w is updating in adapts the step size
AdaptRound(w) == Adapts(kw.spectral, recvd[w].i, kw.Tf)

\* the baseline of worker w for a key, without the model's bookkeeping
Baseline(vo) == [x |-> vo.x, xbar |-> vo.xbar, y |-> vo.y, yhat |-> vo.yhat]

C20_NeverRoundZero ==
    \A w \in Workers : \A key \in DOMAIN spec_call[w] :
        spec_call[w][key] # <<>> =>
            /\ spec_call[w][key].k >= 1
            /\ spec_call[w][key].k % kw.Tf = 1

\* a worker has called step_spec in the round of index 1, after a round of
\* index 0 in which it did not
C20_Witness ==
    \E w \in Workers : \E key \in DOMAIN spec_call[w] :
        /\ spec_call[w][key] # <<>>
        /\ spec_call[w][key].k = 1
        /\ reports[w] = 2
        /\ Len(hist) >= 1

\* C16: a step changes a step size of a worker only if it is the update of a
\* round with spectral adaptation enabled and round index % Tf = 1; the update
\* of any other round leaves every step size and the baseline (v_old) of the
\* worker as they were.
C16_RhoFrame ==
    [][\A w \in Workers : wpc'[w] # "dead" =>
          /\ (\E key \in DOMAIN v[w] : v'[w][key].rho # v[w][key].rho)
                => (UpdateStep(w) /\ AdaptRound(w))
          /\ (UpdateStep(w) /\ ~AdaptRound(w)) =>
                \A key \in DOMAIN v[w] :
                    /\ v'[w][key].rho = v[w][key].rho
                    /\ Baseline(v_old'[w][key]) = Baseline(v_old[w][key])]_vars

\* C17: in an adaptation round the yhat handed to the step-size adapter is
\* y + rho * (x - xbar) with the y and xbar the worker held before the update
\* of this round.
C17_YhatFromOldValues ==
    [][\A w \in Workers : (UpdateStep(w) /\ AdaptRound(w)) =>
          \A key \in DOMAIN v[w] :
              spec_call'[w][key].yhat =
                  VAdd(v[w][key].y, VScale(v[w][key].rho, VSub(v[w][key].x, v[w][key].xbar)))]_vars

\* C18: in an adaptation round step_spec is called with, for x, xbar, y and
\* yhat, the value of this round minus the value of the baseline; after the
\* round the baseline holds the x, xbar, y and yhat of this round; the update
\* of a round that does not adapt leaves the baseline as it was.
C18_DeltasAndBaseline ==
    [][\A w \in Workers : UpdateStep(w) =>
          \A key \in DOMAIN v[w] :
              IF AdaptRound(w)
              THEN /\ spec_call'[w][key].dx = VSub(v'[w][key].x, v_old[w][key].x)
                   /\ spec_call'[w][key].dxbar = VSub(v'[w][key].xbar, v_old[w][key].xbar)
                   /\ spec_call'[w][key].dy = VSub(v'[w][key].y, v_old[w][key].y)
                   /\ spec_call'[w][key].dyhat = VSub(spec_call'[w][key].yhat, v_old[w][key].yhat)
                   /\ Baseline(v_old'[w][key]) =
                         [x |-> v'[w][key].x, xbar |-> v'[w][key].xbar, y |-> v'[w][key].y,
                          yhat |-> spec_call'[w][key].yhat]
              ELSE Baseline(v_old'[w][key]) = Baseline(v_old[w][key])]_vars

\* the sum of the floats f[key] over the set S of keys
RECURSIVE FloatSum(_, _)
FloatSum(f, S) ==
    IF S = {} THEN <<0, 1>>
    ELSE LET key == CHOOSE q \in S : TRUE IN Add(f[key], FloatSum(f, S \ {key}))

\* C15: the update of a round sets, for every variable of the worker, xbar to
\* the consensus value received and then y to y + rho * (x - xbar) with the
\* new xbar; its residual report holds the sums of squares of x - xbar_new, of
\* rho * (xbar_old - xbar_new) with the xbar and rho held before the update,
\* of x, of the new xbar and of the new y.
C15_UpdateOrder ==
    [][\A w \in Workers : UpdateStep(w) =>
          LET keys == DOMAIN v[w]
              xb == recvd[w].xbars
              sent == toCoord'[w][Len(toCoord'[w])]
          IN  /\ \A key \in keys :
                    /\ v'[w][key].xbar = xb[key]
                    /\ v'[w][key].y =
                          VAdd(v[w][key].y, VScale(v[w][key].rho, VSub(v[w][key].x, xb[key])))
              /\ sent.primal = FloatSum([key \in keys |-> SumSq(VSub(v[w][key].x, xb[key]))], keys)
              /\ sent.dual = FloatSum([key \in keys |->
                      SumSq(VScale(v[w][key].rho, VSub(v[w][key].xbar, xb[key])))], keys)
              /\ sent.x = FloatSum([key \in keys |-> SumSq(v[w][key].x)], keys)
              /\ sent.xbar = FloatSum([key \in keys |-> SumSq(v'[w][key].xbar)], keys)
              /\ sent.y = FloatSum([key \in keys |-> SumSq(v'[w][key].y)], keys)]_vars

\* a worker has made the update of its second round, in which the consensus
\* value changed and differs from its x: y moved by rho * (x - xbar_new),
\* which is not rho * (x - xbar_old)
C15_Witness ==
    \E w \in Workers :
        /\ wpc[w] = "solve"
        /\ reports[w] = 2
        /\ Len(toCoord[w]) > 0
        /\ "primal" \in DOMAIN toCoord[w][Len(toCoord[w])]
        /\ toCoord[w][Len(toCoord[w])].primal # <<0, 1>>
        /\ toCoord[w][Len(toCoord[w])].dual # <<0, 1>>
        /\ v[w][1].y # <<<<0, 1>>>>

\* the local-solve reports of the round agree on every variable two of them hold
Agreeing ==
    /\ Len(prox_res) = N
    /\ \A r \in 1..N : \A q \in 1..N :
          \A key \in DOMAIN prox_res[r].xvals \cap DOMAIN prox_res[q].xvals :
              prox_res[r].xvals[key] = prox_res[q].xvals[key]

\* every dual of every worker is zero
DualsZero == \A u \in Workers : \A key \in DOMAIN v[u] : v[u][key].y = <<<<0, 1>>>>

\* the update of worker w leaves its consensus values and duals as they were
\* and reports zero primal and dual residuals
RoundIsIdle(w) ==
    /\ \A key \in DOMAIN v[w] :
          /\ v'[w][key].xbar = v[w][key].xbar
          /\ v'[w][key].y = v[w][key].y
    /\ toCoord'[w][Len(toCoord'[w])].primal = <<0, 1>>
    /\ toCoord'[w][Len(toCoord'[w])].dual = <<0, 1>>

\* C14 as stated: if the workers' local solves agree on every shared variable
\* and all duals are zero, the update of the round leaves the consensus value
\* and the duals of each worker unchanged and reports zero primal and dual
\* residuals.
C14_AgreeingRoundIsIdle ==
    [][\A w \in Workers : (UpdateStep(w) /\ Agreeing /\ DualsZero) => RoundIsIdle(w)]_vars

\* C14 as amended: the same, for a worker whose consensus value of every
\* variable already equals the agreed value of the variable.
C14_FixedPointRoundIsIdle ==
    [][\A w \in Workers :
          (/\ UpdateStep(w)
           /\ Agreeing
           /\ DualsZero
           /\ \A key \in DOMAIN v[w] : v[w][key].xbar = v[w][key].x)
          => RoundIsIdle(w)]_vars

\* a worker has made the update of its second round: all local solves of the
\* round gave 1 for the shared variable, its consensus value was 1 already,
\* all duals are zero, and it reported zero residuals
C14_Witness ==
    \E w \in Workers :
        /\ wpc[w] = "solve"
        /\ reports[w] = 2
        /\ cpc = "gather_ssq"
        /\ Agreeing
        /\ DualsZero
        /\ v[w][1].x = <<<<1, 1>>>>
        /\ v[w][1].xbar = <<<<1, 1>>>>
        /\ hist[1][1][1] = <<<<1, 1>>>>
        /\ toCoord[w][Len(toCoord[w])].primal = <<0, 1>>
        /\ toCoord[w][Len(toCoord[w])].dual = <<0, 1>>

\* C19: once the run has aborted on an infeasible or unbounded report, every
\* worker process eventually has ended.
C19_AbortEndsWorkers ==
    (cpc = "RuntimeError") ~> (\A w \in Workers : wpc[w] = "dead")

=============================================================================
